---- MODULE Spec2Model ----
(***************************************************************************)
(* Model of content/blog/relatividade/introducao.py: the Markdown image    *)
(* inliner.  Text is a sequence of one-character strings, file contents    *)
(* are sequences of bytes (0..255), and the string operations of the       *)
(* script (re.findall, str.replace, os.path.join, base64.b64encode, text   *)
(* mode open) are computed character by character.                         *)
(***************************************************************************)
EXTENDS Integers, Sequences, FiniteSets, TLC

\* ------------------------------------------------------------------------
\* Bounds of the explored inputs
\* ------------------------------------------------------------------------

\* A document is the concatenation of at most MaxFrags fragments.
MaxFrags == 2

\* ------------------------------------------------------------------------
\* Literals of the script
\* ------------------------------------------------------------------------

\* 'images/' : the prefix in the pattern (line 16), the text removed from
\* the captured path (line 21) and the images folder (line 38).
IMAGES == <<"i", "m", "a", "g", "e", "s", "/">>

images_folder == IMAGES

\* "data:image/png;base64," (line 26)
DATA_PREFIX ==
  <<"d", "a", "t", "a", ":", "i", "m", "a", "g", "e", "/", "p", "n", "g",
    ";", "b", "a", "s", "e", "6", "4", ",">>

\* The base64 alphabet of base64.b64encode (index + 1).
B64 ==
  <<"A", "B", "C", "D", "E", "F", "G", "H", "I", "J", "K", "L", "M",
    "N", "O", "P", "Q", "R", "S", "T", "U", "V", "W", "X", "Y", "Z",
    "a", "b", "c", "d", "e", "f", "g", "h", "i", "j", "k", "l", "m",
    "n", "o", "p", "q", "r", "s", "t", "u", "v", "w", "x", "y", "z",
    "0", "1", "2", "3", "4", "5", "6", "7", "8", "9", "+", "/">>

\* ------------------------------------------------------------------------
\* Strings
\* ------------------------------------------------------------------------

\* p occurs in s starting at index i.
OccursAt(s, p, i) ==
  /\ i >= 1
  /\ i + Len(p) - 1 <= Len(s)
  /\ \A k \in 1..Len(p) : s[i + k - 1] = p[k]

\* The least element of a non-empty set of integers.
Least(S) == CHOOSE i \in S : \A j \in S : i <= j

\* str.find from index i: the first index >= i where p occurs, 0 if none.
Find(s, p, i) ==
  LET at == {j \in i..(Len(s) - Len(p) + 1) : OccursAt(s, p, j)} IN
    IF at = {} THEN 0 ELSE Least(at)

\* str.replace(old, new) for a non-empty old: every non-overlapping
\* occurrence, scanning left to right.
RECURSIVE Replace(_, _, _)
Replace(s, old, new) ==
  LET i == Find(s, old, 1) IN
    IF i = 0 THEN s
    ELSE SubSeq(s, 1, i - 1) \o new
           \o Replace(SubSeq(s, i + Len(old), Len(s)), old, new)

\* os.path.join(a, b) for two components.
join(a, b) ==
  IF Len(b) > 0 /\ b[1] = "/" THEN b
  ELSE IF Len(a) = 0 \/ a[Len(a)] = "/" THEN a \o b
  ELSE a \o <<"/">> \o b

\* ------------------------------------------------------------------------
\* Text mode files (open(..., "r") and open(..., "w"), newline=None)
\* ------------------------------------------------------------------------

\* Reading translates "\r\n", "\r" and "\n" to "\n": a "\r" becomes "\n"
\* and a "\n" that follows a "\r" is dropped ("" marks a dropped place).
ReadText(b) ==
  LET tr == [i \in 1..Len(b) |->
               IF b[i] = "\r" THEN "\n"
               ELSE IF b[i] = "\n" /\ i > 1 /\ b[i - 1] = "\r" THEN ""
               ELSE b[i]]
      Kept(c) == c # ""
  IN SelectSeq(tr, Kept)

\* Writing translates every "\n" to os.linesep.
WriteText(t, sep) ==
  Replace(t, <<"\n">>, sep)

\* ------------------------------------------------------------------------
\* base64.b64encode(...).decode('utf-8')
\* ------------------------------------------------------------------------

RECURSIVE b64encode(_)
b64encode(bs) ==
  IF Len(bs) = 0 THEN <<>>
  ELSE IF Len(bs) = 1 THEN
    LET n == bs[1] * 65536 IN
      <<B64[(n \div 262144) + 1], B64[((n \div 4096) % 64) + 1], "=", "=">>
  ELSE IF Len(bs) = 2 THEN
    LET n == bs[1] * 65536 + bs[2] * 256 IN
      <<B64[(n \div 262144) + 1], B64[((n \div 4096) % 64) + 1],
        B64[((n \div 64) % 64) + 1], "=">>
  ELSE
    LET n == bs[1] * 65536 + bs[2] * 256 + bs[3] IN
      <<B64[(n \div 262144) + 1], B64[((n \div 4096) % 64) + 1],
        B64[((n \div 64) % 64) + 1], B64[(n % 64) + 1]>>
        \o b64encode(SubSeq(bs, 4, Len(bs)))

\* ------------------------------------------------------------------------
\* The pattern  !\[([^\]]*)\]\((images/[^)]+)\)
\* ------------------------------------------------------------------------

\* The first index >= i of character c in s, 0 if none.
IndexOf(s, c, i) ==
  Find(s, <<c>>, i)

\* MatchAt without the "images/" prefix of the path: any ![alt](target).
MatchAtAnyTarget(s, i) ==
  IF ~OccursAt(s, <<"!", "[">>, i) THEN 0
  ELSE
    LET rb == IndexOf(s, "]", i + 2) IN
      IF rb = 0 \/ ~OccursAt(s, <<"(">>, rb + 1) THEN 0
      ELSE
        LET rp == IndexOf(s, ")", rb + 2) IN
          IF rp = 0 \/ rp = rb + 2 THEN 0 ELSE rp

\* The index of the last character of the match of the pattern that starts
\* at index i, 0 if the pattern does not match there.  The alt text runs to
\* the first "]", the path from "images/" to the first ")" and has at least
\* one character after the prefix.
MatchAt(s, i) ==
  IF ~OccursAt(s, <<"!", "[">>, i) THEN 0
  ELSE
    LET rb == IndexOf(s, "]", i + 2) IN
      IF rb = 0 \/ ~OccursAt(s, <<"(">> \o IMAGES, rb + 1) THEN 0
      ELSE
        LET rp == IndexOf(s, ")", rb + 2 + Len(IMAGES)) IN
          IF rp = 0 \/ rp = rb + 2 + Len(IMAGES) THEN 0 ELSE rp

\* The groups of the match that starts at i and ends at e.
Groups(s, i, e) ==
  LET rb == IndexOf(s, "]", i + 2) IN
    [alt_text   |-> SubSeq(s, i + 2, rb - 1),
     image_path |-> SubSeq(s, rb + 2, e - 1)]

\* The non-overlapping matches from index i on, left to right, with their
\* positions.
RECURSIVE FindSpans(_, _)
FindSpans(s, i) ==
  LET at == {j \in i..Len(s) : MatchAt(s, j) # 0} IN
    IF at = {} THEN <<>>
    ELSE
      LET b == Least(at)
          e == MatchAt(s, b)
      IN <<[start |-> b, end |-> e, groups |-> Groups(s, b, e)]>>
           \o FindSpans(s, e + 1)

\* re.findall(pattern, content): the groups of every match.
FindAll(s) ==
  LET sp == FindSpans(s, 1) IN
    [k \in 1..Len(sp) |-> sp[k].groups]

\* ------------------------------------------------------------------------
\* One iteration of the loop over the matches (lines 19-29)
\* ------------------------------------------------------------------------

\* os.path.join(images_folder, image_path.replace('images/', ''))
full_image_path(folder, image_path) ==
  join(folder, Replace(image_path, IMAGES, <<>>))

\* os.path.exists(p): true of files and of directories.
os_path_exists(d, p) ==
  p \in DOMAIN d /\ d[p].kind # "missing"

\* open(p, "rb") succeeds: p is a regular file.
Readable(d, p) ==
  p \in DOMAIN d /\ d[p].kind = "file"

convert_image_to_base64(d, p) ==
  b64encode(d[p].bytes)

\* f"data:image/png;base64,{base64_str}"
data_uri(base64_str) ==
  DATA_PREFIX \o base64_str

\* f'![{alt_text}]({image_path})' and f'![{alt_text}]({data_uri})'
ImageSyntax(alt_text, target) ==
  <<"!", "[">> \o alt_text \o <<"]", "(">> \o target \o <<")">>

\* The content after lines 25-27 for match m.
Substituted(d, c, m) ==
  LET p == full_image_path(images_folder, m.image_path) IN
    Replace(c, ImageSyntax(m.alt_text, m.image_path),
               ImageSyntax(m.alt_text,
                           data_uri(convert_image_to_base64(d, p))))

\* The line printed at line 29.
Diagnostic(p) ==
  [text |-> "Imagem nao encontrada: ", path |-> p]

\* ------------------------------------------------------------------------
\* Explored inputs
\* ------------------------------------------------------------------------

Missing == [kind |-> "missing", bytes |-> <<>>]
Dir == [kind |-> "dir", bytes |-> <<>>]
File(bs) == [kind |-> "file", bytes |-> bs]

\* Image files that may or may not exist, and their bytes when they do.
PathX == IMAGES \o <<"x">>
PathQ == IMAGES \o <<"q", "!", "[", "a", "]", "(", "x">>
PathS == IMAGES \o <<"x", "!", "[", "a", "]", "(">> \o DATA_PREFIX
PathAB == IMAGES \o <<"a", "/", "b">>

FilePaths == {PathX, PathQ, PathS, PathAB}

BytesOf(p) ==
  IF p = PathX THEN <<77>>
  ELSE IF p = PathQ THEN <<0, 255>>
  ELSE IF p = PathS THEN <<>>
  ELSE <<1, 2, 3, 254>>

Disks ==
  { [p \in FilePaths \cup {images_folder} |->
       IF p = images_folder THEN Dir
       ELSE IF p \in present THEN File(BytesOf(p))
       ELSE Missing] : present \in SUBSET FilePaths }

\* Pieces of documents.
RefX == ImageSyntax(<<"a">>, IMAGES \o <<"x">>)
RefQ == <<"!", "[", "b", "]", "(">> \o IMAGES \o <<"q">> \o RefX
RefS == ImageSyntax(<<"a">>, IMAGES \o <<"x", "!", "[", "a", "]", "(">>
                               \o DATA_PREFIX)
RefT == <<"!", "[", "a", "]", "(">> \o IMAGES \o <<"x">> \o RefS
RefAB == ImageSyntax(<<"a">>, IMAGES \o <<"a", "/">> \o IMAGES \o <<"b">>)
RefDir == ImageSyntax(<<"a">>, IMAGES \o IMAGES)
RefOther == ImageSyntax(<<"a">>, <<"h">>)
RefEmpty == ImageSyntax(<<"a">>, IMAGES)

Frags ==
  { <<"t">>, <<"\r">>, <<"\n">>,
    RefX, RefQ, RefS, RefT, RefAB, RefDir, RefOther, RefEmpty }

RECURSIVE Concat(_)
Concat(ss) ==
  IF Len(ss) = 0 THEN <<>> ELSE ss[1] \o Concat(Tail(ss))

Docs ==
  { Concat(fs) : fs \in UNION { [1..n -> Frags] : n \in 0..MaxFrags } }

\* ------------------------------------------------------------------------
\* State
\* ------------------------------------------------------------------------

VARIABLES
  linesep,    \* os.linesep of the platform
  disk,       \* the image files: path -> [kind, bytes]
  markdown,   \* the characters of the file at markdown_path
  pc,         \* "start", "loop", "done" or "aborted"
  content,    \* the local content
  matches,    \* the local matches
  idx,        \* index in matches of the next iteration of the for loop
  checked,    \* the paths passed to os.path.exists, in order
  opened,     \* the paths passed to convert_image_to_base64, in order
  diag,       \* the lines printed
  out,        \* the characters of the file at output_path
  writes      \* number of writes to the file at output_path

vars ==
  <<linesep, disk, markdown, pc, content, matches, idx, checked, opened,
    diag, out, writes>>

Init ==
  /\ linesep \in {<<"\n">>, <<"\r", "\n">>}
  /\ disk \in Disks
  /\ markdown \in Docs
  /\ pc = "start"
  /\ content = <<>>
  /\ matches = <<>>
  /\ idx = 1
  /\ checked = <<>>
  /\ opened = <<>>
  /\ diag = <<>>
  /\ out = <<>>
  /\ writes = 0

\* Lines 12-17: the document is read and scanned.
ReadDocument ==
  /\ pc = "start"
  /\ content' = ReadText(markdown)
  /\ matches' = FindAll(content')
  /\ idx' = 1
  /\ pc' = "loop"
  /\ UNCHANGED <<linesep, disk, markdown, checked, opened, diag, out, writes>>

\* Line 12 raises: the document cannot be opened or decoded.
ReadDocumentFails ==
  /\ pc = "start"
  /\ pc' = "aborted"
  /\ UNCHANGED <<linesep, disk, markdown, content, matches, idx, checked,
                 opened, diag, out, writes>>

\* Substitute with the write of lines 31-32 inside the loop.
SubstituteAndWrite ==
  /\ pc = "loop"
  /\ idx <= Len(matches)
  /\ LET m == matches[idx]
         p == full_image_path(images_folder, m.image_path)
     IN /\ os_path_exists(disk, p)
        /\ Readable(disk, p)
        /\ checked' = Append(checked, p)
        /\ opened' = Append(opened, p)
        /\ content' = Substituted(disk, content, m)
  /\ idx' = idx + 1
  /\ out' = WriteText(content', linesep)
  /\ writes' = writes + 1
  /\ UNCHANGED <<linesep, disk, markdown, pc, matches, diag>>

\* Lines 19-27: the image of the current match exists and is inlined.
Substitute ==
  /\ pc = "loop"
  /\ idx <= Len(matches)
  /\ LET m == matches[idx]
         p == full_image_path(images_folder, m.image_path)
     IN /\ os_path_exists(disk, p)
        /\ Readable(disk, p)
        /\ checked' = Append(checked, p)
        /\ opened' = Append(opened, p)
        /\ content' = Substituted(disk, content, m)
  /\ idx' = idx + 1
  /\ UNCHANGED <<linesep, disk, markdown, pc, matches, diag, out, writes>>

\* Lines 24-25, 7: the path exists but open(..., "rb") raises.
ImageReadFails ==
  /\ pc = "loop"
  /\ idx <= Len(matches)
  /\ LET m == matches[idx]
         p == full_image_path(images_folder, m.image_path)
     IN /\ os_path_exists(disk, p)
        /\ ~Readable(disk, p)
        /\ checked' = Append(checked, p)
        /\ opened' = Append(opened, p)
  /\ pc' = "aborted"
  /\ UNCHANGED <<linesep, disk, markdown, content, matches, idx, diag, out,
                 writes>>

\* ReportMissing that prints a missing path only the first time.
ReportMissingOnce ==
  /\ pc = "loop"
  /\ idx <= Len(matches)
  /\ LET m == matches[idx]
         p == full_image_path(images_folder, m.image_path)
     IN /\ ~os_path_exists(disk, p)
        /\ checked' = Append(checked, p)
        /\ diag' = IF \E k \in DOMAIN diag : diag[k] = Diagnostic(p)
                     THEN diag
                     ELSE Append(diag, Diagnostic(p))
  /\ idx' = idx + 1
  /\ UNCHANGED <<linesep, disk, markdown, pc, content, matches, opened, out,
                 writes>>

\* Lines 24, 28-29: the image does not exist, a line is printed.
ReportMissing ==
  /\ pc = "loop"
  /\ idx <= Len(matches)
  /\ LET m == matches[idx]
         p == full_image_path(images_folder, m.image_path)
     IN /\ ~os_path_exists(disk, p)
        /\ checked' = Append(checked, p)
        /\ diag' = Append(diag, Diagnostic(p))
  /\ idx' = idx + 1
  /\ UNCHANGED <<linesep, disk, markdown, pc, content, matches, opened, out,
                 writes>>

\* Lines 31-32: after the loop the content is written.
WriteOutput ==
  /\ pc = "loop"
  /\ idx > Len(matches)
  /\ out' = WriteText(content, linesep)
  /\ writes' = writes + 1
  /\ pc' = "done"
  /\ UNCHANGED <<linesep, disk, markdown, content, matches, idx, checked,
                 opened, diag>>

\* Line 31 raises: the output file cannot be opened for writing.
WriteOutputFails ==
  /\ pc = "loop"
  /\ idx > Len(matches)
  /\ pc' = "aborted"
  /\ UNCHANGED <<linesep, disk, markdown, content, matches, idx, checked,
                 opened, diag, out, writes>>

Next ==
  \/ ReadDocument
  \/ ReadDocumentFails
  \/ Substitute
  \/ ImageReadFails
  \/ ReportMissing
  \/ WriteOutput
  \/ WriteOutputFails

Spec == Init /\ [][Next]_vars

\* ------------------------------------------------------------------------
\* Vocabulary of the properties
\* ------------------------------------------------------------------------

\* p occurs somewhere in s.
Contains(s, p) ==
  \E i \in 1..Len(s) : OccursAt(s, p, i)

\* s[i..e] reads ![<alt>](images/<path>): the alt text has no "]", the
\* path has no ")" and at least one character after "images/".
IsReference(s, i, e) ==
  \E rb \in (i + 2)..e :
    /\ OccursAt(s, <<"!", "[">>, i)
    /\ \A k \in (i + 2)..(rb - 1) : s[k] # "]"
    /\ OccursAt(s, <<"]", "(">> \o IMAGES, rb)
    /\ e > rb + 1 + Len(IMAGES)
    /\ e <= Len(s)
    /\ s[e] = ")"
    /\ \A k \in (rb + 2 + Len(IMAGES))..(e - 1) : s[k] # ")"

HasReference(s) ==
  \E i \in 1..Len(s) : \E e \in i..Len(s) : IsReference(s, i, e)

\* b with every line ending ("\r\n", "\r" or "\n") written as sep.
RECURSIVE LineEndingsAs(_, _)
LineEndingsAs(b, sep) ==
  LET at == {i \in 1..Len(b) : b[i] = "\r" \/ b[i] = "\n"} IN
    IF at = {} THEN b
    ELSE
      LET i == Least(at)
          n == IF b[i] = "\r" /\ i < Len(b) /\ b[i + 1] = "\n" THEN 2 ELSE 1
      IN SubSeq(b, 1, i - 1) \o sep
           \o LineEndingsAs(SubSeq(b, i + n, Len(b)), sep)

\* The inverse of base64: the bytes of a payload, <<-1>> if it is malformed.
B64Value(c) == (CHOOSE i \in 1..64 : B64[i] = c) - 1

B64Chars == {B64[i] : i \in 1..64}

RECURSIVE b64decode(_)
b64decode(cs) ==
  IF Len(cs) = 0 THEN <<>>
  ELSE IF Len(cs) < 4 \/ cs[1] \notin B64Chars \/ cs[2] \notin B64Chars
    THEN <<-1>>
  ELSE IF cs[3] = "=" THEN
    IF Len(cs) = 4 /\ cs[4] = "="
      THEN <<B64Value(cs[1]) * 4 + (B64Value(cs[2]) \div 16)>>
      ELSE <<-1>>
  ELSE IF cs[3] \notin B64Chars THEN <<-1>>
  ELSE IF cs[4] = "=" THEN
    IF Len(cs) = 4
      THEN <<B64Value(cs[1]) * 4 + (B64Value(cs[2]) \div 16),
             (B64Value(cs[2]) % 16) * 16 + (B64Value(cs[3]) \div 4)>>
      ELSE <<-1>>
  ELSE IF cs[4] \notin B64Chars THEN <<-1>>
  ELSE <<B64Value(cs[1]) * 4 + (B64Value(cs[2]) \div 16),
         (B64Value(cs[2]) % 16) * 16 + (B64Value(cs[3]) \div 4),
         (B64Value(cs[3]) % 4) * 64 + B64Value(cs[4])>>
         \o b64decode(SubSeq(cs, 5, Len(cs)))

\* The path the loop resolves for a match, and whether it exists.
ResolvedOf(m) == full_image_path(images_folder, m.image_path)
ExistsOf(m) == os_path_exists(disk, ResolvedOf(m))
OriginalOf(m) == ImageSyntax(m.alt_text, m.image_path)

\* The document text as read, its matches with their positions, and the
\* text between them: Gap(j) is the text after match j (Gap(0) the text
\* before the first match).
Text0 == ReadText(markdown)
Spans0 == FindSpans(Text0, 1)
NSpans == Len(Spans0)
Gap(j) ==
  SubSeq(Text0,
         IF j = 0 THEN 1 ELSE Spans0[j].end + 1,
         IF j = NSpans THEN Len(Text0) ELSE Spans0[j + 1].start - 1)

\* What stands for match k in a document where exactly the references with
\* an existing image are inlined, each at its own position.
InlinedOf(m) ==
  ImageSyntax(m.alt_text, data_uri(b64encode(disk[ResolvedOf(m)].bytes)))
ExpectedOf(m) == IF ExistsOf(m) THEN InlinedOf(m) ELSE OriginalOf(m)

\* That document up to and including match k.
RECURSIVE ExpectedUpTo(_)
ExpectedUpTo(k) ==
  IF k = 0 THEN <<>>
  ELSE ExpectedUpTo(k - 1) \o Gap(k - 1) \o ExpectedOf(Spans0[k].groups)

\* Positions in the output file (every "\n" is written as linesep).
Written(t) == LineEndingsAs(t, linesep)
PosOfRef(k) == Len(Written(ExpectedUpTo(k - 1) \o Gap(k - 1))) + 1
PosOfGap(j) == Len(Written(ExpectedUpTo(j))) + 1
ExpectedLen == Len(Written(ExpectedUpTo(NSpans) \o Gap(NSpans)))

\* The loop of lines 19-29 over a list of matches ms, from content c.
RECURSIVE ApplyAll(_, _)
ApplyAll(c, ms) ==
  IF Len(ms) = 0 THEN c
  ELSE ApplyAll(IF ExistsOf(ms[1]) THEN Substituted(disk, c, ms[1]) ELSE c,
                Tail(ms))

\* A whole run on the file b: the file it writes.
Transform(b) ==
  WriteText(ApplyAll(ReadText(b), FindAll(ReadText(b))), linesep)

\* No image of the matches of the file b is a directory.
RunCompletes(b) ==
  \A k \in DOMAIN FindAll(ReadText(b)) :
    LET p == ResolvedOf(FindAll(ReadText(b))[k]) IN
      os_path_exists(disk, p) => Readable(disk, p)

\* ------------------------------------------------------------------------
\* Properties
\* ------------------------------------------------------------------------

\* C1: after the run, the original text ![alt](images/path) of every match
\* whose resolved image exists occurs nowhere in the output.
C1_NoOriginalLeft ==
  pc = "done" =>
    \A k \in DOMAIN matches :
      ExistsOf(matches[k]) => ~Contains(out, OriginalOf(matches[k]))

\* C2: after the run, for every match whose resolved image exists the output
\* has, at the position of that match, ![alt](data:image/png;base64,P) with
\* the alt text unchanged and P decoding to the bytes of the resolved file.
C2_DataUriAtPosition ==
  pc = "done" =>
    \A k \in 1..NSpans :
      LET m == Spans0[k].groups
          head == Written(<<"!", "[">> \o m.alt_text \o <<"]", "(">>
                            \o DATA_PREFIX)
          from == PosOfRef(k) + Len(head)
          rp == IndexOf(out, ")", from)
      IN ExistsOf(m) =>
           /\ OccursAt(out, head, PosOfRef(k))
           /\ rp # 0
           /\ b64decode(SubSeq(out, from, rp - 1)) = disk[ResolvedOf(m)].bytes

\* C3: a match whose resolved image does not exist never aborts the run, and
\* after the run its text stands unchanged at its position in the output.
C3_MissingLeftInPlace ==
  /\ (pc = "aborted" /\ idx <= Len(matches)) => ExistsOf(matches[idx])
  /\ pc = "done" =>
       \A k \in 1..NSpans :
         LET m == Spans0[k].groups IN
           ~ExistsOf(m) => OccursAt(out, Written(OriginalOf(m)), PosOfRef(k))

C5_SecondRunNoOp ==
  (pc = "done" /\ RunCompletes(out)) => Transform(out) = out

\* C6 as stated: the number of lines printed in a run is the number of
\* distinct missing image files.
C6_OneLinePerMissingFile ==
  pc = "done" =>
    Len(diag) =
      Cardinality({ResolvedOf(matches[k]) :
                     k \in {j \in DOMAIN matches : ~ExistsOf(matches[j])}})

\* The lines of the matches of ms whose image is missing, in order.
RECURSIVE MissingLines(_)
MissingLines(ms) ==
  IF Len(ms) = 0 THEN <<>>
  ELSE (IF ExistsOf(ms[1]) THEN <<>> ELSE <<Diagnostic(ResolvedOf(ms[1]))>>)
         \o MissingLines(Tail(ms))

\* C6 amended: the lines printed are, in order, one line per processed match
\* whose resolved image is missing, naming that path; a reference repeated
\* verbatim is one match per occurrence and is reported once per occurrence.
C6_OneLinePerMissingMatch ==
  /\ diag = MissingLines(SubSeq(matches, 1, idx - 1))
  /\ pc = "done" => idx = Len(matches) + 1

C6_Witness ==
  /\ pc = "done"
  /\ Len(matches) = 2
  /\ matches[1] = matches[2]
  /\ Len(diag) = 2
  /\ diag[1] = diag[2]

\* C7: after the run, the text outside the matches whose image exists (the
\* text between the matches and the matches whose image is missing) stands
\* unchanged and in order in the output, which differs from the input only
\* inside the matches whose image exists.
C7_RestUntouched ==
  pc = "done" =>
    /\ Len(out) = ExpectedLen
    /\ \A j \in 0..NSpans : OccursAt(out, Written(Gap(j)), PosOfGap(j))
    /\ \A k \in 1..NSpans :
         ~ExistsOf(Spans0[k].groups) =>
           OccursAt(out, Written(OriginalOf(Spans0[k].groups)), PosOfRef(k))

\* C8: the output file is written at most once, only after every match has
\* been processed and with the final text; an aborted run has written
\* nothing.
C8_SingleFinalWrite ==
  /\ writes <= 1
  /\ writes = 1 =>
       /\ pc = "done"
       /\ idx = Len(matches) + 1
       /\ out = LineEndingsAs(content, linesep)
  /\ writes = 0 => out = <<>>
  /\ pc = "done" => writes = 1
  /\ pc = "aborted" => writes = 0

C8_Witness ==
  /\ pc = "done"
  /\ writes = 1
  /\ Len(matches) = 2
  /\ Len(opened) = 1
  /\ Len(diag) = 1

\* C9: every path checked and every path read is the images folder joined
\* with the captured path less its leading "images/" only.
C9_LeadingPrefixOnly ==
  /\ \A k \in DOMAIN checked :
       checked[k] =
         join(images_folder,
              SubSeq(matches[k].image_path, Len(IMAGES) + 1,
                     Len(matches[k].image_path)))
  /\ \A k \in DOMAIN opened : \E j \in DOMAIN checked : opened[k] = checked[j]

\* C10: processing the matches in any order gives the final text that
\* processing them in order of appearance gives.
C10_OrderIndependent ==
  pc = "done" =>
    \A f \in Permutations(DOMAIN matches) :
      ApplyAll(Text0, [k \in DOMAIN matches |-> matches[f[k]]]) = content

====
